---- MODULE Spec2Model ----
(***************************************************************************)
(* Model of demsuperimpose.py: the merge of one base demo with a number of *)
(* ghost demos.  A demo is a sequence of blocks, a block a sequence of     *)
(* messages, a message a record tagged by "type".  Python's None is the    *)
(* integer None for optional numbers, the record NoneMsg for an optional   *)
(* message and the empty sequence for the optional model list (server-info *)
(* model lists in the modelled inputs are never empty).  Python lists are  *)
(* 0-based: models[k] in the source is models[k + 1] here.  Times are      *)
(* integers.  Update flags are a set of flag names, |= is set union.       *)
(***************************************************************************)
EXTENDS Integers, Sequences, FiniteSets, TLC

VARIABLES pc, base_dem, ghost_dems, base_info, ghost_infos, new_model_dict,
          new_num_clients, ghost_entity_ids, new_blocks, out_dem

vars == <<pc, base_dem, ghost_dems, base_info, ghost_infos, new_model_dict,
          new_num_clients, ghost_entity_ids, new_blocks, out_dem>>

\* ------------------------------------------------------------------ values

_MAX_SCOREBOARD == 16

None == -1

NoneMsg == [type |-> "None"]

NoneModels == << >>

MOREBITS == "MOREBITS"

LONGENTITY == "LONGENTITY"

\* ---------------------------------------------------------------- messages

ServerInfoMessage(models, max_clients) ==
    [type |-> "ServerInfo", models_precache |-> models, max_clients |-> max_clients]

SetViewMessage(id) == [type |-> "SetView", viewentity_id |-> id]

UpdateNameMessage(player_id, name) ==
    [type |-> "UpdateName", player_id |-> player_id, name |-> name]

UpdateColorsMessage(player_id, color) ==
    [type |-> "UpdateColors", player_id |-> player_id, color |-> color]

SpawnBaselineMessage(entity_num, modelindex) ==
    [type |-> "SpawnBaseline", entity_num |-> entity_num, modelindex |-> modelindex]

SpawnStaticMessage(modelindex) == [type |-> "SpawnStatic", modelindex |-> modelindex]

\* frame stands for the fields of an update that the merge passes through
EntityUpdateMessage(num, modelindex, frame, flags) ==
    [type |-> "EntityUpdate", num |-> num, modelindex |-> modelindex,
     frame |-> frame, flags |-> flags]

TimeMessage(time) == [type |-> "Time", time |-> time]

SignOnNumMessage(stage) == [type |-> "SignOnNum", stage |-> stage]

SoundMessage(ent) == [type |-> "Sound", ent |-> ent]

TempEntityMessage(tetype, entity_num) ==
    [type |-> "TempEntity", tetype |-> tetype, beam_entity_num |-> entity_num]

OtherMessage == [type |-> "Other"]

\* ----------------------------------------------------------------- helpers

RECURSIVE Flatten(_)
Flatten(blocks) ==
    IF blocks = << >> THEN << >> ELSE Head(blocks) \o Flatten(Tail(blocks))

RECURSIVE SelectIdx(_, _, _)
\* the indices i >= from of s with s[i].type = ty, ascending
SelectIdx(s, ty, from) ==
    IF from > Len(s) THEN << >>
    ELSE IF s[from].type = ty THEN <<from>> \o SelectIdx(s, ty, from + 1)
    ELSE SelectIdx(s, ty, from + 1)

SetMax(S) == CHOOSE m \in S : \A n \in S : n <= m

SetMin(S) == CHOOSE m \in S : \A n \in S : m <= n

Min(a, b) == IF a < b THEN a ELSE b

\* --------------------------------------------------------------- _BaseInfo

\* _BaseInfo.process: ok = FALSE stands for the raised exception
BaseInfo_process(dem) ==
    LET msgs == Flatten(dem)
        infos == SelectIdx(msgs, "ServerInfo", 1)
        upds == SelectIdx(msgs, "EntityUpdate", 1)
        nums == {msgs[upds[i]].num : i \in 1..Len(upds)}
        models == IF infos = << >> THEN NoneModels ELSE msgs[infos[1]].models_precache
        max_clients == IF infos = << >> THEN None ELSE msgs[infos[1]].max_clients
        max_entity_id == IF nums = {} THEN None ELSE SetMax(nums)
        above == {n \in nums : n > max_clients}
        bad == [ok |-> FALSE, models |-> NoneModels, max_entity_id |-> None,
                max_clients |-> None, first_non_client_entity_id |-> None]
    IN  IF Len(infos) > 1 THEN bad                       \* "multiple server infos"
        ELSE IF max_clients = None /\ nums # {} THEN bad \* msg.num > None
        ELSE [ok |-> TRUE, models |-> models, max_entity_id |-> max_entity_id,
              max_clients |-> max_clients,
              first_non_client_entity_id |->
                  IF above = {} THEN None ELSE SetMin(above)]

\* -------------------------------------------------------------- _GhostInfo

GhostInfo(models, entity_baseline, entity_updates, times, name, color) ==
    [models |-> models, entity_baseline |-> entity_baseline,
     entity_updates |-> entity_updates, times |-> times,
     name |-> name, color |-> color]

\* the locals of process_all before the loop, with the segments yielded so far
ProcessAllStart ==
    [ok |-> TRUE, server_info_seen |-> FALSE, view_entity_id |-> None,
     models |-> NoneModels, time |-> None, entity_baseline |-> NoneMsg,
     times |-> << >>, entity_updates |-> << >>,
     name |-> "name not set", color |-> 0, yielded |-> << >>]

\* the reset after a yield: name and color are not among the names reset
ProcessAllReset(st) ==
    [st EXCEPT !.server_info_seen = FALSE, !.view_entity_id = None,
               !.models = NoneModels, !.time = None,
               !.entity_baseline = NoneMsg, !.times = << >>,
               !.entity_updates = << >>]

ProcessAllYield(st) ==
    [st EXCEPT !.yielded = Append(@, GhostInfo(st.models, st.entity_baseline,
                                               st.entity_updates, st.times,
                                               st.name, st.color))]

\* one iteration of the loop of process_all, on message msg
ProcessAllStep(st, msg) ==
    IF ~st.ok THEN st
    ELSE CASE msg.type = "ServerInfo" ->
              LET s1 == IF st.server_info_seen
                        THEN ProcessAllReset(ProcessAllYield(st))
                        ELSE st
              IN  [s1 EXCEPT !.models = msg.models_precache,
                             !.server_info_seen = TRUE]
           [] msg.type = "SetView" ->
              [st EXCEPT !.view_entity_id = msg.viewentity_id]
           [] msg.type = "UpdateName" ->
              IF st.view_entity_id # None /\ st.view_entity_id = msg.player_id + 1
              THEN [st EXCEPT !.name = msg.name] ELSE st
           [] msg.type = "UpdateColors" ->
              IF st.view_entity_id # None /\ st.view_entity_id = msg.player_id + 1
              THEN [st EXCEPT !.color = msg.color] ELSE st
           [] msg.type = "SpawnBaseline" ->
              IF st.view_entity_id = None
              THEN [st EXCEPT !.ok = FALSE]       \* "baseline received before set view"
              ELSE IF msg.entity_num = st.view_entity_id
                   THEN [st EXCEPT !.entity_baseline = msg] ELSE st
           [] msg.type = "Time" ->
              IF st.entity_baseline = NoneMsg
              THEN [st EXCEPT !.ok = FALSE]       \* "time received before entity baseline"
              ELSE [st EXCEPT !.time = msg.time]
           [] msg.type = "EntityUpdate" ->
              IF msg.num = st.view_entity_id
              THEN IF st.time = None
                   THEN [st EXCEPT !.ok = FALSE]  \* "entity update received without time"
                   ELSE [st EXCEPT !.entity_updates = Append(@, msg),
                                   !.times = Append(@, st.time),
                                   !.time = None]
              ELSE st
           [] OTHER -> st

RECURSIVE ProcessAllLoop(_, _)
ProcessAllLoop(st, msgs) ==
    IF msgs = << >> THEN st
    ELSE ProcessAllLoop(ProcessAllStep(st, Head(msgs)), Tail(msgs))

\* _GhostInfo.process_all, run to exhaustion: [ok, gis]
GhostInfo_process_all(dem) ==
    LET st == ProcessAllLoop(ProcessAllStart, Flatten(dem))
    IN  IF ~st.ok THEN [ok |-> FALSE, gis |-> << >>]
        ELSE IF st.entity_baseline = NoneMsg
             THEN [ok |-> FALSE, gis |-> << >>]   \* "no view entity baseline"
             ELSE [ok |-> TRUE, gis |-> ProcessAllYield(st).yielded]

\* [gi for gi in gis if gi.models[1] == base_world_model], as indices into gis
MapGis(gis, base_world_model) ==
    {i \in 1..Len(gis) : gis[i].models[2] = base_world_model}

\* the last of the longest, as a maximum taken with >= finds it
MaxByTimes_last(gis, idxs) ==
    CHOOSE i \in idxs :
        /\ \A j \in idxs : Len(gis[j].times) <= Len(gis[i].times)
        /\ \A j \in idxs : Len(gis[j].times) = Len(gis[i].times) => j <= i

\* max(map_gis, key=lambda gi: len(gi.times)): the first of the longest
MaxByTimes(gis, idxs) ==
    CHOOSE i \in idxs :
        /\ \A j \in idxs : Len(gis[j].times) <= Len(gis[i].times)
        /\ \A j \in idxs : Len(gis[j].times) = Len(gis[i].times) => i <= j

\* _GhostInfo.process: [ok, gi]
GhostInfo_process(dem, base_world_model) ==
    LET all == GhostInfo_process_all(dem)
        gis == all.gis
        bad == [ok |-> FALSE, gi |-> NoneMsg]
    IN  IF ~all.ok THEN bad
        ELSE IF \E i \in 1..Len(gis) : Len(gis[i].models) < 2 THEN bad \* gi.models[1]
        ELSE IF MapGis(gis, base_world_model) = {} THEN bad  \* maps do not match
        ELSE [ok |-> TRUE, gi |-> gis[MaxByTimes(gis, MapGis(gis, base_world_model))]]

\* ------------------------------------------------------- _convert_msg_entity

\* the comparison with old_num_clients + 1 taken for one with old_num_clients
convert_entity_id_strict(entity_id, old_num_clients, new_clients) ==
    IF entity_id < old_num_clients
    THEN entity_id
    ELSE entity_id + new_clients - old_num_clients

\* convert_entity_id, closed over old_num_clients and new_num_clients
convert_entity_id(entity_id, old_num_clients, new_clients) ==
    IF entity_id < old_num_clients + 1
    THEN entity_id
    ELSE entity_id + new_clients - old_num_clients

_convert_msg_entity(msg, old_num_clients, new_clients) ==
    CASE msg.type = "SpawnBaseline" ->
             [msg EXCEPT !.entity_num =
                 convert_entity_id(@, old_num_clients, new_clients)]
      [] msg.type = "EntityUpdate" ->
             [msg EXCEPT !.num = convert_entity_id(@, old_num_clients, new_clients)]
      [] msg.type = "Sound" ->
             [msg EXCEPT !.ent = convert_entity_id(@, old_num_clients, new_clients)]
      [] msg.type = "TempEntity" /\ msg.tetype = "LIGHTNING4" ->
             [msg EXCEPT !.beam_entity_num =
                 convert_entity_id(@, old_num_clients, new_clients)]
      [] OTHER -> msg

\* ------------------------------------------------------------ model numbers

\* numbering from 0: len(new_model_dict)
NextModelNum_zero(dict) == Cardinality(DOMAIN dict)

\* len(new_model_dict) + 1
NextModelNum(dict) == Cardinality(DOMAIN dict) + 1

RECURSIVE AddModels(_, _)
\* the loop over one model list: names not yet in the dict get the next number
AddModels(dict, models) ==
    IF models = << >> THEN dict
    ELSE LET model_name == Head(models)
         IN  AddModels(IF model_name \in DOMAIN dict
                       THEN dict
                       ELSE dict @@ (model_name :> NextModelNum(dict)),
                       Tail(models))

RECURSIVE AddModelLists(_, _)
AddModelLists(dict, models_list) ==
    IF models_list = << >> THEN dict
    ELSE AddModelLists(AddModels(dict, Head(models_list)), Tail(models_list))

\* models_list = [base_info.models] + [ghost_info.models for ...]
ModelsList(bi, gis) == <<bi.models>> \o [i \in 1..Len(gis) |-> gis[i].models]

EmptyDict == [n \in {} |-> 0]

\* the model number of a message of a demo with model list models; -2 stands
\* for the IndexError of models[modelindex - 1]
IndexError == -2

ModelNum(modelindex, models, dict) ==
    IF modelindex = None THEN None
    ELSE IF modelindex = 0 THEN 0
    ELSE IF modelindex > Len(models) THEN IndexError
    ELSE dict[models[modelindex]]

\* ------------------------------------------------------------- entity numbers

NewNumClients(old_num_clients, num_ghosts) ==
    Min(_MAX_SCOREBOARD, old_num_clients + num_ghosts)

\* ghost_entity_ids[ghost_idx], ghost_idx counted from 0 as in the source
GhostEntityId(ghost_idx, old_num_clients, new_clients, max_entity_id) ==
    IF ghost_idx < new_clients - old_num_clients
    THEN old_num_clients + 1 + ghost_idx
    ELSE max_entity_id + 1 + ghost_idx

\* max_entity_id is None and some ghost takes the second branch: None + 1
GhostEntityIdsRaise(num_ghosts, old_num_clients, new_clients, max_entity_id) ==
    /\ max_entity_id = None
    /\ \E ghost_idx \in 0..(num_ghosts - 1) :
           ~(ghost_idx < new_clients - old_num_clients)

\* ------------------------------------------------------------ block rewrite

HasModelIndex(msg) == msg.type \in {"SpawnStatic", "SpawnBaseline", "EntityUpdate"}

\* the first loop over block.messages: one new message per message
ConvertMsg(msg) ==
    IF HasModelIndex(msg)
    THEN [_convert_msg_entity(msg, base_info.max_clients, new_num_clients)
              EXCEPT !.modelindex = ModelNum(msg.modelindex, base_info.models,
                                             new_model_dict)]
    ELSE IF msg.type = "ServerInfo"
    THEN [msg EXCEPT !.max_clients = new_num_clients]
    ELSE _convert_msg_entity(msg, base_info.max_clients, new_num_clients)

ConvertMessages(block) == [i \in 1..Len(block) |-> ConvertMsg(block[i])]

\* last_spawn_baseline_idx (0-based), None when the block has no baseline
LastSpawnBaselineIdx(block) ==
    LET idxs == SelectIdx(block, "SpawnBaseline", 1)
    IN  IF idxs = << >> THEN None ELSE idxs[Len(idxs)] - 1

\* list.insert(idx, x) for 0 <= idx <= len
ListInsert(s, idx, x) == SubSeq(s, 1, idx) \o <<x>> \o SubSeq(s, idx + 1, Len(s))

\* the baseline synthesized for the ghost with 0-based index ghost_idx
GhostBaseline(ghost_idx) ==
    LET ghost_info == ghost_infos[ghost_idx + 1]
        baseline == ghost_info.entity_baseline
    IN  [baseline EXCEPT !.entity_num = ghost_entity_ids[ghost_idx + 1],
                         !.modelindex = ModelNum(baseline.modelindex,
                                                 ghost_info.models, new_model_dict)]

\* each ghost's baseline put after the one before it
BaselineInsert_after(new_messages, last_spawn_baseline_idx, ghost_idx) ==
    ListInsert(new_messages, last_spawn_baseline_idx + ghost_idx,
               GhostBaseline(ghost_idx))

\* where the baseline of ghost ghost_idx is put into new_messages
BaselineInsert(new_messages, last_spawn_baseline_idx, ghost_idx) ==
    ListInsert(new_messages, last_spawn_baseline_idx, GhostBaseline(ghost_idx))

RECURSIVE AddBaselinesFrom(_, _, _)
AddBaselinesFrom(new_messages, last_spawn_baseline_idx, ghost_idx) ==
    IF ghost_idx >= Len(ghost_infos) THEN new_messages
    ELSE AddBaselinesFrom(
             BaselineInsert(new_messages, last_spawn_baseline_idx, ghost_idx),
             last_spawn_baseline_idx, ghost_idx + 1)

\* "Add baselines onto baseline block."
AddBaselines(new_messages, block) ==
    IF LastSpawnBaselineIdx(block) # None
    THEN AddBaselinesFrom(new_messages, LastSpawnBaselineIdx(block), 0)
    ELSE new_messages

RECURSIVE AddNamesFrom(_, _)
AddNamesFrom(new_messages, ghost_idx) ==
    IF ghost_idx >= Len(ghost_infos) THEN new_messages
    ELSE LET entity_num == ghost_entity_ids[ghost_idx + 1]
             ghost_info == ghost_infos[ghost_idx + 1]
         IN  AddNamesFrom(
                 IF entity_num < new_num_clients + 1
                 THEN new_messages \o
                      <<UpdateNameMessage(entity_num - 1, ghost_info.name),
                        UpdateColorsMessage(entity_num - 1, ghost_info.color)>>
                 ELSE new_messages,
                 ghost_idx + 1)

\* "Add name / color updates into sign_on=3 block"
AddNames(new_messages, block) ==
    IF \E i \in 1..Len(block) : block[i].type = "SignOnNum" /\ block[i].stage = 3
    THEN AddNamesFrom(new_messages, 0)
    ELSE new_messages

RECURSIVE bisect_right(_, _, _, _)
\* bisect.bisect(a, x): the loop of bisect_right on lo, hi (0-based)
bisect_right(a, x, lo, hi) ==
    IF lo < hi
    THEN LET mid == (lo + hi) \div 2
         IN  IF x < a[mid + 1] THEN bisect_right(a, x, lo, mid)
             ELSE bisect_right(a, x, mid + 1, hi)
    ELSE lo

\* time_idx = bisect.bisect(ghost_info.times, time) - 1
TimeIdx(times, time) == bisect_right(times, time, 0, Len(times)) - 1

\* the flags of the update appended for a ghost
GhostUpdateFlags(flags, entity_num) ==
    IF entity_num > 255 THEN flags \cup {MOREBITS, LONGENTITY} ELSE flags

\* the update appended for ghost ghost_idx from its sample time_idx (0-based)
GhostUpdate(ghost_idx, time_idx) ==
    LET ghost_info == ghost_infos[ghost_idx + 1]
        entity_num == ghost_entity_ids[ghost_idx + 1]
        update == ghost_info.entity_updates[time_idx + 1]
    IN  [update EXCEPT !.num = entity_num,
                       !.modelindex = ModelNum(update.modelindex,
                                               ghost_info.models, new_model_dict),
                       !.flags = GhostUpdateFlags(update.flags, entity_num)]

RECURSIVE AddUpdatesFrom(_, _, _)
AddUpdatesFrom(new_messages, time, ghost_idx) ==
    IF ghost_idx >= Len(ghost_infos) THEN new_messages
    ELSE LET time_idx == TimeIdx(ghost_infos[ghost_idx + 1].times, time)
         IN  AddUpdatesFrom(
                 IF time_idx >= 0
                 THEN Append(new_messages, GhostUpdate(ghost_idx, time_idx))
                 ELSE new_messages,
                 time, ghost_idx + 1)

\* "Add update messages."
AddUpdates(new_messages, block) ==
    IF block # << >> /\ block[1].type = "Time"
    THEN AddUpdatesFrom(new_messages, block[1].time, 0)
    ELSE new_messages

\* the body of the loop over base_dem.blocks
RewriteBlock(block) ==
    AddUpdates(AddNames(AddBaselines(ConvertMessages(block), block), block), block)

\* some models[modelindex - 1] of the rewrite raised
RewriteRaises(new_messages) ==
    \E i \in 1..Len(new_messages) :
        /\ HasModelIndex(new_messages[i])
        /\ new_messages[i].modelindex = IndexError

\* ------------------------------------------------------------------- inputs

MaxGhosts == 3

MaxSegments == 2

MaxSamples == 2

MaxModels == 3

MaxModelGhosts == 1

MaxTime == 3

SeqsUpTo(S, n) == UNION {[1..k -> S] : k \in 0..n}

BaseModels == <<"m0", "mapA", "player">>

GhostModels(map) == <<"m0", map, "player", "eyes">>

\* the flags a server sends with an update of entity num
WireFlags(num, extra) == IF num > 255 THEN extra \cup {MOREBITS, LONGENTITY} ELSE extra

\* -- base demos whose entity ids lie around the client range and around 255
ClientCounts == (_MAX_SCOREBOARD - 2)..(_MAX_SCOREBOARD + 1)

EntityIds == {1, 16, 17, 18, 254, 255, 256}

BaselineBlock(layout, b) ==
    CASE layout = 1 -> <<SpawnBaselineMessage(b, 3)>>
      [] layout = 2 -> <<SpawnBaselineMessage(1, 3), SpawnStaticMessage(2),
                         SpawnBaselineMessage(b, 0), OtherMessage>>
      [] OTHER -> <<OtherMessage, SpawnBaselineMessage(b, None),
                    SignOnNumMessage(3), SoundMessage(b)>>

IdsBase(mc, b, u, extra, layout) ==
    << <<ServerInfoMessage(BaseModels, mc)>>,
       BaselineBlock(layout, b),
       <<SignOnNumMessage(2)>>,
       <<SignOnNumMessage(3)>>,
       <<TimeMessage(1), EntityUpdateMessage(u, 1, 0, WireFlags(u, extra)),
         SoundMessage(b), TempEntityMessage("LIGHTNING4", u),
         TempEntityMessage("EXPLOSION", u)>>,
       <<TimeMessage(2), EntityUpdateMessage(1, 3, 1, {"ORIGIN1"})>> >>

\* the k-th ghost demo of a run: one segment on the base map, two samples
SimpleGhost(k) ==
    << <<ServerInfoMessage(GhostModels("mapA"), 1)>>,
       <<SetViewMessage(1), UpdateNameMessage(0, ToString(k)),
         UpdateColorsMessage(0, k), SpawnBaselineMessage(1, 3 + (k % 2))>>,
       <<TimeMessage(1), EntityUpdateMessage(1, 3, 1, {"ORIGIN1"})>>,
       <<TimeMessage(2), EntityUpdateMessage(1, 4, 2, {})>> >>

IdsInputs ==
    {<<IdsBase(mc, b, u, extra, layout), [k \in 1..g |-> SimpleGhost(k)]>> :
        mc \in ClientCounts, b \in EntityIds, u \in EntityIds,
        extra \in {{}, {MOREBITS}}, layout \in 1..3, g \in 0..MaxGhosts}

\* -- ghost demos of several segments, for the selection of the segment
SampleBlocks(times, modelindex) ==
    [i \in 1..Len(times) |->
        <<TimeMessage(times[i]), EntityUpdateMessage(1, modelindex, i, {}),
          EntityUpdateMessage(2, 1, 0, {})>>]

Segment(map, name, color, times) ==
    << <<ServerInfoMessage(GhostModels(map), 1)>>,
       <<SetViewMessage(1)>>
         \o (IF name = "" THEN << >>
             ELSE <<UpdateNameMessage(0, name), UpdateNameMessage(1, "other"),
                    UpdateColorsMessage(0, color)>>)
         \o <<SpawnBaselineMessage(2, 3), SpawnBaselineMessage(1, 3)>> >>
    \o SampleBlocks(times, 3)

SelSegments ==
    {Segment(map, name, 1, [i \in 1..n |-> i]) :
        map \in {"mapA", "mapB"}, name \in {"alice", "bob"}, n \in 0..MaxSamples}

\* ghost demos that break the protocol
ViolationDems ==
    { << <<ServerInfoMessage(GhostModels("mapA"), 1)>>,
         <<SpawnBaselineMessage(1, 3)>> >>,                \* baseline before set view
      << <<ServerInfoMessage(GhostModels("mapA"), 1)>>,
         <<SetViewMessage(1)>>, <<TimeMessage(1)>> >>,     \* time before baseline
      << <<ServerInfoMessage(GhostModels("mapA"), 1)>>,
         <<SetViewMessage(1), SpawnBaselineMessage(1, 3)>>,
         <<EntityUpdateMessage(1, 3, 0, {})>> >>,          \* update without time
      << <<ServerInfoMessage(GhostModels("mapA"), 1)>>,
         <<SetViewMessage(1), SpawnBaselineMessage(2, 3)>> >>,  \* no view baseline
      << <<SetViewMessage(1), SpawnBaselineMessage(1, 3)>> >>,  \* no server info
      << <<ServerInfoMessage(<<"m0">>, 1)>>,
         <<SetViewMessage(1), SpawnBaselineMessage(1, 1)>> >> } \* no world model

TimeBlocks(last) == [t \in 1..(last + 1) |-> <<TimeMessage(t - 1), OtherMessage>>]

PlainBase(last) ==
    << <<ServerInfoMessage(BaseModels, 1)>>,
       <<SpawnBaselineMessage(1, 3), SpawnBaselineMessage(2, 1)>>,
       <<SignOnNumMessage(3)>> >> \o TimeBlocks(last)

\* base demos the run does not survive, or survives only without ghosts
OddBases ==
    { PlainBase(1) \o << <<ServerInfoMessage(BaseModels, 1)>> >>,  \* two server infos
      << <<OtherMessage>>, <<TimeMessage(1)>> >>,                  \* no server info
      << <<TimeMessage(1), EntityUpdateMessage(1, 1, 0, {})>> >>,     \* update, no info
      << <<ServerInfoMessage(<<"m0">>, 1)>>, <<TimeMessage(1)>> >>,  \* no world model
      << <<ServerInfoMessage(BaseModels, 1)>>,
         <<SpawnStaticMessage(4)>> >>,                             \* model out of list
      << <<ServerInfoMessage(BaseModels, _MAX_SCOREBOARD)>>,
         <<SpawnBaselineMessage(1, 3)>>, <<TimeMessage(1)>> >> }   \* no update at all

SelInputs ==
    {<<PlainBase(MaxSamples), <<Flatten(segs)>> >> :
        segs \in SeqsUpTo(SelSegments, MaxSegments) \ {<< >>}}
    \cup {<<PlainBase(1), <<SimpleGhost(1), d>> >> : d \in ViolationDems}
    \cup {<<b, [k \in 1..g |-> SimpleGhost(k)]>> : b \in OddBases, g \in 0..1}

\* -- model lists that share and repeat names
ModelLists ==
    {<<x, "mapA">> \o tail :
        x \in {"mapA", "player"}, tail \in SeqsUpTo({"player", "eyes"}, MaxModels - 2)}

ModBase(models) ==
    << <<ServerInfoMessage(models, 1)>>,
       [i \in 1..Len(models) |-> SpawnStaticMessage(i)]
         \o <<SpawnStaticMessage(0), SpawnBaselineMessage(1, Len(models))>>,
       <<TimeMessage(1), EntityUpdateMessage(1, None, 0, {}),
         EntityUpdateMessage(2, Len(models), 0, {})>> >>

ModGhost(models) ==
    << <<ServerInfoMessage(models, 1)>>,
       <<SetViewMessage(1), SpawnBaselineMessage(1, Len(models))>>,
       <<TimeMessage(1), EntityUpdateMessage(1, 1, 0, {})>> >>

\* any base list with up to MaxModelGhosts ghosts, and one base list that
\* repeats a name with one ghost more
ModInputs ==
    {<<ModBase(models), [k \in 1..Len(gl) |-> ModGhost(gl[k])]>> :
        models \in ModelLists, gl \in SeqsUpTo(ModelLists, MaxModelGhosts)}
    \cup {<<ModBase(<<"mapA", "mapA">>), [k \in 1..Len(gl) |-> ModGhost(gl[k])]>> :
              gl \in [1..(MaxModelGhosts + 1) -> ModelLists]}

\* -- ghost demos with any sample times and with or without announcements
GhostSegments ==
    {Segment(map, name, 4, times) :
        map \in {"mapA", "mapB"}, name \in {"", "alice"},
        times \in SeqsUpTo(1..MaxTime, MaxSamples)}

GhostInputs ==
    {<<PlainBase(MaxTime), <<Flatten(segs)>> >> :
        segs \in SeqsUpTo(GhostSegments, MaxSegments) \ {<< >>}}

\* ------------------------------------------------------------------ the run

NotWritten == [opened |-> FALSE, blocks |-> << >>]

InitWith(inputs) ==
    /\ \E in \in inputs : base_dem = in[1] /\ ghost_dems = in[2]
    /\ pc = "base"
    /\ base_info = BaseInfo_process(<< >>)
    /\ ghost_infos = << >>
    /\ new_model_dict = EmptyDict
    /\ new_num_clients = None
    /\ ghost_entity_ids = << >>
    /\ new_blocks = << >>
    /\ out_dem = NotWritten

Init == InitWith(IdsInputs \cup SelInputs \cup ModInputs)

InitGhost == InitWith(GhostInputs)

Fail == pc' = "failed"

\* base_info = _BaseInfo.process(base_dem)
ParseBase ==
    /\ pc = "base"
    /\ LET bi == BaseInfo_process(base_dem)
       IN  IF bi.ok
           THEN /\ base_info' = bi
                /\ pc' = "ghosts"
           ELSE /\ Fail
                /\ UNCHANGED base_info
    /\ UNCHANGED <<base_dem, ghost_dems, ghost_infos, new_model_dict,
                   new_num_clients, ghost_entity_ids, new_blocks, out_dem>>

\* one iteration of the loop over fnames[1:]
ProcessGhost ==
    /\ pc = "ghosts"
    /\ Len(ghost_infos) < Len(ghost_dems)
    /\ LET dem == ghost_dems[Len(ghost_infos) + 1]
       IN  IF Len(base_info.models) < 2          \* base_info.models[1]
           THEN Fail /\ UNCHANGED ghost_infos
           ELSE LET r == GhostInfo_process(dem, base_info.models[2])
                IN  IF r.ok
                    THEN /\ ghost_infos' = Append(ghost_infos, r.gi)
                         /\ pc' = "ghosts"
                    ELSE Fail /\ UNCHANGED ghost_infos
    /\ UNCHANGED <<base_dem, ghost_dems, base_info, new_model_dict,
                   new_num_clients, ghost_entity_ids, new_blocks, out_dem>>

\* "Construct mappings for model numbers."
BuildModelDict ==
    /\ pc = "ghosts"
    /\ Len(ghost_infos) = Len(ghost_dems)
    /\ IF base_info.models = NoneModels         \* for model_name in None
       THEN Fail /\ UNCHANGED new_model_dict
       ELSE /\ new_model_dict' =
                   AddModelLists(EmptyDict, ModelsList(base_info, ghost_infos))
            /\ pc' = "entities"
    /\ UNCHANGED <<base_dem, ghost_dems, base_info, ghost_infos,
                   new_num_clients, ghost_entity_ids, new_blocks, out_dem>>

\* "Construct mappings for entity numbers."
BuildEntityIds ==
    /\ pc = "entities"
    /\ LET old_num_clients == base_info.max_clients
           new_clients == NewNumClients(old_num_clients, Len(ghost_infos))
       IN  IF \/ old_num_clients = None
              \/ ~(old_num_clients <= _MAX_SCOREBOARD)      \* the assert
              \/ GhostEntityIdsRaise(Len(ghost_infos), old_num_clients,
                                     new_clients, base_info.max_entity_id)
           THEN Fail /\ UNCHANGED <<new_num_clients, ghost_entity_ids>>
           ELSE /\ new_num_clients' = new_clients
                /\ ghost_entity_ids' =
                       [k \in 1..Len(ghost_infos) |->
                           GhostEntityId(k - 1, old_num_clients, new_clients,
                                         base_info.max_entity_id)]
                /\ pc' = "rewrite"
    /\ UNCHANGED <<base_dem, ghost_dems, base_info, ghost_infos, new_model_dict,
                   new_blocks, out_dem>>

\* one iteration of the loop over base_dem.blocks
RewriteNextBlock ==
    /\ pc = "rewrite"
    /\ Len(new_blocks) < Len(base_dem)
    /\ LET new_messages == RewriteBlock(base_dem[Len(new_blocks) + 1])
       IN  IF RewriteRaises(new_messages)
           THEN Fail /\ UNCHANGED new_blocks
           ELSE /\ new_blocks' = Append(new_blocks, new_messages)
                /\ pc' = "rewrite"
    /\ UNCHANGED <<base_dem, ghost_dems, base_info, ghost_infos, new_model_dict,
                   new_num_clients, ghost_entity_ids, out_dem>>

\* the write in a finally clause: what was rewritten is written after a failure
WriteDemo_finally ==
    /\ pc \in {"rewrite", "failed"}
    /\ pc = "rewrite" => Len(new_blocks) = Len(base_dem)
    /\ out_dem' = [opened |-> TRUE, blocks |-> new_blocks]
    /\ pc' = "done"
    /\ UNCHANGED <<base_dem, ghost_dems, base_info, ghost_infos, new_model_dict,
                   new_num_clients, ghost_entity_ids, new_blocks>>

\* with open('out.dem', 'wb') as f: new_dem.write(f)
WriteDemo ==
    /\ pc = "rewrite"
    /\ Len(new_blocks) = Len(base_dem)
    /\ out_dem' = [opened |-> TRUE, blocks |-> new_blocks]
    /\ pc' = "done"
    /\ UNCHANGED <<base_dem, ghost_dems, base_info, ghost_infos, new_model_dict,
                   new_num_clients, ghost_entity_ids, new_blocks>>

Next ==
    \/ ParseBase
    \/ ProcessGhost
    \/ BuildModelDict
    \/ BuildEntityIds
    \/ RewriteNextBlock
    \/ WriteDemo

Spec == Init /\ [][Next]_vars

SpecGhost == InitGhost /\ [][Next]_vars

\* ------------------------------------------------------------- entity ids

\* the entity ids a demo refers to, and its client slots
ReferencedIds(dem, max_clients) ==
    LET msgs == Flatten(dem)
    IN  {msgs[i].entity_num : i \in {j \in 1..Len(msgs) : msgs[j].type = "SpawnBaseline"}}
        \cup {msgs[i].num : i \in {j \in 1..Len(msgs) : msgs[j].type = "EntityUpdate"}}
        \cup {msgs[i].ent : i \in {j \in 1..Len(msgs) : msgs[j].type = "Sound"}}
        \cup {msgs[i].beam_entity_num :
                 i \in {j \in 1..Len(msgs) : /\ msgs[j].type = "TempEntity"
                                             /\ msgs[j].tetype = "LIGHTNING4"}}
        \cup 1..max_clients

EntitiesBuilt == pc \in {"rewrite", "done"}

Conv(e) == convert_entity_id(e, base_info.max_clients, new_num_clients)

IdsInjective ==
    LET ids == {e \in ReferencedIds(base_dem, base_info.max_clients) : e >= 1}
        G == 1..Len(ghost_entity_ids)
    IN  /\ \A a, b \in ids : a # b => Conv(a) # Conv(b)
        /\ \A i, j \in G : i # j => ghost_entity_ids[i] # ghost_entity_ids[j]
        /\ \A i \in G : \A e \in ids : ghost_entity_ids[i] # Conv(e)

WithinSpare == Len(ghost_infos) <= _MAX_SCOREBOARD - base_info.max_clients

\* C1: with no more ghosts than spare client slots, the converted ids of the
\* base demo's entities and the ids given to the ghosts are pairwise distinct.
C1_InjectiveWithinSpare == (EntitiesBuilt /\ WithinSpare) => IdsInjective

C1_Witness ==
    /\ pc = "done"
    /\ Len(ghost_infos) = 2
    /\ base_info.max_clients = _MAX_SCOREBOARD - 2
    /\ \E e \in ReferencedIds(base_dem, base_info.max_clients) :
           e > base_info.max_clients /\ Conv(e) = e + 2

\* C8: for any number of ghosts, also more than the spare client slots, the
\* converted ids of the base demo and the ids given to the ghosts are
\* pairwise distinct.
C8_InjectiveAnyGhostCount == EntitiesBuilt => IdsInjective

\* ------------------------------------------------------------------ flags

ExtendedIffLong(msg) == ({MOREBITS, LONGENTITY} \subseteq msg.flags) <=> (msg.num > 255)

\* C2: every update of the rewritten blocks, converted from the base or
\* appended for a ghost, has both extended-id flags exactly when its id
\* exceeds 255.
C2_ExtendedFlagsIffLongId ==
    \A k \in 1..Len(new_blocks) : \A i \in 1..Len(new_blocks[k]) :
        new_blocks[k][i].type = "EntityUpdate" => ExtendedIffLong(new_blocks[k][i])

\* ------------------------------------------------------------- zero ghosts

\* C3: a run without ghosts writes the base demo unchanged.
C3_ZeroGhostsIdentity ==
    (pc = "done" /\ ghost_dems = << >>) => out_dem.blocks = base_dem

\* ----------------------------------------------------------- ghost samples

\* the updates of a rewritten block that carry the id of ghost g
GhostUpdatesIn(nb, g) ==
    {i \in 1..Len(nb) : nb[i].type = "EntityUpdate" /\ nb[i].num = ghost_entity_ids[g]}

LatestSampleAtOrBefore(times, t) ==
    {i \in 1..Len(times) :
        /\ times[i] <= t
        /\ \A j \in 1..Len(times) : times[j] <= t => times[j] <= times[i]}

\* C4: a rewritten block that starts with a time stamp t has, for each ghost,
\* one update built from the ghost's latest sample at or before t, and none
\* when the ghost has no sample at or before t.
C4_LatestSampleSelected ==
    \A k \in 1..Len(new_blocks) :
        (base_dem[k] # << >> /\ base_dem[k][1].type = "Time") =>
            \A g \in 1..Len(ghost_infos) :
                LET t == base_dem[k][1].time
                    latest == LatestSampleAtOrBefore(ghost_infos[g].times, t)
                    ups == GhostUpdatesIn(new_blocks[k], g)
                IN  IF latest = {} THEN ups = {}
                    ELSE /\ Cardinality(ups) = 1
                         /\ \E i \in latest : \A u \in ups :
                                new_blocks[k][u] = GhostUpdate(g - 1, i - 1)

\* ------------------------------------------------------- segment selection

Eligible(gis, base_world_model) ==
    {j \in 1..Len(gis) : Len(gis[j].models) >= 2 /\ gis[j].models[2] = base_world_model}

\* C5: the track selected for a ghost demo is, among its segments on the base
\* map, the one with the most samples and the earliest of these; a demo with
\* no segment on the base map fails the run.
C5_SelectsLongestEligible ==
    (pc # "base" /\ Len(base_info.models) >= 2) =>
        \A g \in 1..Len(ghost_dems) :
            LET all == GhostInfo_process_all(ghost_dems[g])
                el == Eligible(all.gis, base_info.models[2])
            IN  /\ g <= Len(ghost_infos) =>
                    \E k \in el :
                        /\ ghost_infos[g] = all.gis[k]
                        /\ \A j \in el :
                               /\ Len(all.gis[j].times) <= Len(all.gis[k].times)
                               /\ j < k => Len(all.gis[j].times) < Len(all.gis[k].times)
                /\ (all.ok /\ el = {}) =>
                       /\ Len(ghost_infos) < g
                       /\ pc \in {"ghosts", "failed"}

C5_Witness ==
    /\ pc = "done"
    /\ Len(ghost_infos) = 1
    /\ LET gis == GhostInfo_process_all(ghost_dems[1]).gis
       IN  /\ Len(gis) = 2
           /\ gis[2].models[2] # base_info.models[2]
           /\ Len(gis[2].times) > Len(gis[1].times)
           /\ ghost_infos[1] = gis[1]

\* ------------------------------------------------------ no output on failure

ServerInfosOf(dem) ==
    LET msgs == Flatten(dem)
        infos == SelectIdx(msgs, "ServerInfo", 1)
    IN  [i \in 1..Len(infos) |-> msgs[infos[i]]]

OnMap(info, map) == Len(info.models_precache) >= 2 /\ info.models_precache[2] = map

\* the inputs the run must not survive
BadInputs ==
    LET infos == ServerInfosOf(base_dem)
    IN  \/ Len(infos) # 1
        \/ infos[1].max_clients > _MAX_SCOREBOARD
        \/ \E g \in 1..Len(ghost_dems) :
               \/ ghost_dems[g] \in ViolationDems
               \/ \A i \in 1..Len(ServerInfosOf(ghost_dems[g])) :
                      ~OnMap(ServerInfosOf(ghost_dems[g])[i], infos[1].models_precache[2])

\* C6: a failed run has not opened the output; the output is opened only
\* when the base demo and every ghost demo were accepted, both mappings were
\* built and every block of the base demo was rewritten.
C6_NoOutputOnFailure ==
    /\ pc = "failed" => out_dem = NotWritten
    /\ out_dem # NotWritten =>
           /\ pc = "done"
           /\ out_dem.opened
           /\ ~BadInputs
           /\ base_info.ok
           /\ Len(ghost_infos) = Len(ghost_dems)
           /\ DOMAIN new_model_dict # {}
           /\ Len(ghost_entity_ids) = Len(ghost_dems)
           /\ Len(new_blocks) = Len(base_dem)
           /\ out_dem.blocks = new_blocks

C6_Witness ==
    /\ pc = "failed"
    /\ Len(ghost_infos) = 1
    /\ Len(ghost_dems) = 2
    /\ out_dem = NotWritten

\* ------------------------------------------------------------- model table

FirstAt(names, x) == SetMin({i \in 1..Len(names) : names[i] = x})

\* C7: the merged model table gives the distinct names of the base list
\* followed by the ghosts' lists the numbers 1..N in order of first appearance.
C7_DenseFirstSeenOrder ==
    pc \in {"entities", "rewrite", "done"} =>
        LET concat == Flatten(ModelsList(base_info, ghost_infos))
            names == {concat[i] : i \in 1..Len(concat)}
        IN  /\ DOMAIN new_model_dict = names
            /\ {new_model_dict[x] : x \in names} = 1..Cardinality(names)
            /\ \A x, y \in names :
                   new_model_dict[x] < new_model_dict[y]
                       <=> FirstAt(concat, x) < FirstAt(concat, y)

C7_Witness ==
    /\ pc = "done"
    /\ Len(ghost_infos) = 2
    /\ base_info.models = <<"mapA", "mapA">>
    /\ ghost_infos[1].models = <<"player", "mapA", "eyes">>
    /\ ghost_infos[2].models = <<"mapA", "mapA", "player">>
    /\ new_model_dict["eyes"] = 3

\* ---------------------------------------------------------- ghost baselines

BaselinesIn(msgs) == SelectIdx(msgs, "SpawnBaseline", 1)

\* the baseline the rewrite is to synthesize for ghost g (1-based)
ExpectedBaseline(g) ==
    LET mi == ghost_infos[g].entity_baseline.modelindex
    IN  [type |-> "SpawnBaseline",
         entity_num |-> ghost_entity_ids[g],
         modelindex |-> IF mi \in {None, 0} THEN mi
                        ELSE new_model_dict[ghost_infos[g].models[mi]]]

\* the ghosts' baselines stand at the place of the last baseline of the block,
\* the ghost at(j) at the j-th of these places, the base baseline after them
BaselinesPlaced(k, at(_)) ==
    LET blk == base_dem[k]
        nb == new_blocks[k]
        bl == BaselinesIn(blk)
        G == Len(ghost_infos)
    IN  IF bl = << >> THEN BaselinesIn(nb) = << >>
        ELSE LET last == bl[Len(bl)]
             IN  /\ Len(BaselinesIn(nb)) = Len(bl) + G
                 /\ \A j \in 1..G : nb[last - 1 + j] = ExpectedBaseline(at(j))
                 /\ nb[last + G] = ConvertMsg(blk[last])
                 /\ \A i \in 1..(last - 1) : nb[i] = ConvertMsg(blk[i])

InOrder(j) == j

Reversed(j) == Len(ghost_infos) + 1 - j

\* C9 (as the spec has it): the synthesized baselines stand at the place of
\* the block's last baseline in ghost input order.
C9_BaselinesInGhostOrder ==
    \A k \in 1..Len(new_blocks) : BaselinesPlaced(k, InOrder)

\* C9 (amended): a rewritten block with a baseline has one synthesized
\* baseline per ghost at the place of the block's last baseline, in reverse
\* ghost input order, directly before that last baseline; a block without a
\* baseline gets none.
C9_BaselinesInReverseGhostOrder ==
    \A k \in 1..Len(new_blocks) : BaselinesPlaced(k, Reversed)

C9_Witness ==
    /\ pc = "done"
    /\ Len(ghost_infos) = 3
    /\ \E k \in 1..Len(new_blocks) :
           /\ Len(BaselinesIn(base_dem[k])) = 2
           /\ Len(BaselinesIn(new_blocks[k])) = 5
           /\ new_blocks[k][3].entity_num = ghost_entity_ids[3]
           /\ new_blocks[k][5].entity_num = ghost_entity_ids[1]
           /\ ghost_entity_ids[1] # ghost_entity_ids[3]
    /\ \E k \in 1..Len(new_blocks) : BaselinesIn(new_blocks[k]) = << >>

\* ---------------------------------------------------------- ghost segments

\* the messages of the k-th segment: from the k-th server info up to the next
SegmentMsgs(dem, k) ==
    LET msgs == Flatten(dem)
        infos == SelectIdx(msgs, "ServerInfo", 1)
    IN  SubSeq(msgs, IF k = 1 THEN 1 ELSE infos[k],
                     IF k = Len(infos) THEN Len(msgs) ELSE infos[k + 1] - 1)

\* C10: every track the extractor emits is the track of its own segment
\* alone: nothing of an earlier segment, name and color included, is in it.
C10_SegmentsIndependent ==
    \A g \in 1..Len(ghost_infos) :
        LET all == GhostInfo_process_all(ghost_dems[g])
        IN  \A k \in 1..Len(all.gis) :
                LET own == GhostInfo_process_all(<<SegmentMsgs(ghost_dems[g], k)>>)
                IN  own.ok => all.gis[k] = own.gis[1]

====
